---- MODULE Spec2Model ----
(***************************************************************************)
(* Model of go/inst/analysis_dao.go: the replication analysis query and    *)
(* its classifier (GetReplicationAnalysis), and the analysis changelog     *)
(* (AuditInstanceAnalysisInChangelog) kept in the two backend tables       *)
(* database_instance_last_analysis and database_instance_analysis_changelog*)
(***************************************************************************)
EXTENDS Integers, Sequences, FiniteSets, TLC

\* ------------------------------------------------------------------ bounds
NProcs == 2        \* orchestrator processes sharing the backend database
MaxCalls == 3      \* audit calls made in one behaviour of Spec
MaxSeqCalls == 5   \* audit calls made in one behaviour of SpecSeq
MaxTime == 2       \* largest value of the backend clock now()
MaxSlaves == 3     \* slaves of the analysed instance in SpecRow
MaxDepth == 1      \* largest replication_depth in SpecRow
MaxGtidSlaves == 2 \* slaves of the analysed instance in SpecGtid
MaxExpireCalls == 3            \* audit calls made in one behaviour of SpecExpire
UnseenInstanceForgetHours == 1 \* config.Config.UnseenInstanceForgetHours
MaxRetryCalls == 4 \* audit calls made in one behaviour of SpecRetry
MaxRetries == 2    \* repetitions of a call after its changelog insert failed
MaxSkew == 1       \* SpecCheck: timestamps reach 2 * InstancePollSeconds + MaxSkew

NULL == "NULL"     \* SQL NULL, an absent row, a nil error

Procs == 1..NProcs
Hostnames == {"db1", "db2"}
InstanceKeys == {[Hostname |-> h, Port |-> 3306] : h \in Hostnames}

\* the analysis codes the audit calls of Spec and SpecSeq are made with
AuditCodes == {"NoProblem", "DeadMaster"}

VARIABLES
    lastAnalysis,  \* table database_instance_last_analysis: per (hostname, port)
                   \* its row, <<>> or <<row>>
    changelog,     \* table database_instance_analysis_changelog, in changelog_id order
    now,           \* the backend's clock, now()
    call,          \* per process: its AuditInstanceAnalysisInChangelog call
    ncalls,        \* number of audit calls made so far
    upserts,       \* history: per key, the codes of the upsert statements executed
    fence,         \* history: per key, the successive distinct codes of its record
    faulted,       \* history: some storage statement has failed
    grp,           \* SpecRow: a group of the analysis query (an instance, its slaves)
    row,           \* SpecRow: the row the query returns for grp, <<>> before it ran
    ana,           \* SpecRow: the ReplicationAnalysis read from row, <<>> before
    snapshot,      \* SpecPass: per hostname, the instance with its slaves, its
                   \* maintenance and downtime rows (<<>> outside SpecPass)
    config,        \* SpecPass: config.Config
    ret,           \* SpecPass: <<>> or <<r>>, r the latest GetReplicationAnalysis
                   \* call: its arguments, what it returned, the analyses it
                   \* built and the audit calls it made
    prev,          \* SpecPass: history, ret of the call before the latest
    expired        \* history: <<>> or <<e>>, e the latest successful
                   \* ExpireInstanceAnalysisChangelog: its time, the changelog
                   \* before it and after it

auditVars == <<lastAnalysis, changelog, now, call, ncalls, upserts, fence, faulted>>
rowVars == <<grp, row, ana>>
passVars == <<snapshot, config, ret, prev>>
expireVars == <<expired>>
vars == <<auditVars, rowVars, passVars, expireVars>>

\* --------------------------------------------------------------- the tables

\* insert ignore into database_instance_last_analysis ... on duplicate key update.
\* MySQL evaluates the assignments of ON DUPLICATE KEY UPDATE from left to
\* right, each on the row as the earlier assignments left it, and reports
\* 1 affected row for an insert, 2 for a row it changed, 0 for a row left as
\* it was.
UpsertFoundRows(la, key, code, t) ==
    IF la[key] = <<>>
    THEN [table |-> [la EXCEPT ![key] = <<[analysis |-> code, analysis_timestamp |-> t]>>],
          rows |-> 1]
    ELSE [table |-> [la EXCEPT ![key] = <<[la[key][1] EXCEPT !.analysis = code]>>],
          rows |-> 1]

UpsertInsertIgnoreOnly(la, key, code, t) ==
    IF la[key] = <<>>
    THEN [table |-> [la EXCEPT ![key] = <<[analysis |-> code, analysis_timestamp |-> t]>>],
          rows |-> 1]
    ELSE [table |-> la, rows |-> 0]

UpsertLastAnalysis(la, key, code, t) ==
    IF la[key] = <<>>
    THEN [table |-> [la EXCEPT ![key] = <<[analysis |-> code, analysis_timestamp |-> t]>>],
          rows |-> 1]
    ELSE LET old == la[key][1]
             \* analysis = values(analysis)
             r1 == [old EXCEPT !.analysis = code]
             \* analysis_timestamp = if(analysis = values(analysis),
             \*                         analysis_timestamp, values(analysis_timestamp))
             r2 == [r1 EXCEPT !.analysis_timestamp =
                       IF r1.analysis = code THEN r1.analysis_timestamp ELSE t]
         IN  [table |-> [la EXCEPT ![key] = <<r2>>],
              rows |-> IF r2 = old THEN 0 ELSE 2]

\* insert into database_instance_analysis_changelog
InsertChangelog(cl, key, code, t) ==
    Append(cl, [hostname |-> key.Hostname, port |-> key.Port,
                analysis_timestamp |-> t, analysis |-> code])

\* the analysis column of a last-analysis row, NULL when there is no row
CodeOf(rec) == IF rec = <<>> THEN NULL ELSE rec[1].analysis

\* ------------------------------------------- AuditInstanceAnalysisInChangelog

\* the call record of a process that has made no call yet (useq = 0, err = FALSE)
IdleCall ==
    [pc |-> "idle", key |-> CHOOSE k \in InstanceKeys : TRUE, code |-> NULL, rows |-> 0, pre |-> NULL,
     useq |-> 0, conc |-> {}, appended |-> FALSE, err |-> FALSE]

\* processes whose call on key has run its upsert and not yet its append
Pending(key) == {q \in Procs : call[q].pc = "append" /\ call[q].key = key}

\* lines 304-326: the upsert statement, RowsAffected, and the early returns
AuditUpsert(p, key, code, ok, limit) ==
    /\ call[p].pc = "idle"
    /\ ncalls < limit
    /\ ncalls' = ncalls + 1
    /\ IF ~ok
       THEN /\ call' = [call EXCEPT ![p] = [IdleCall EXCEPT !.key = key, !.code = code,
                                                            !.err = TRUE]]
            /\ faulted' = TRUE
            /\ UNCHANGED <<lastAnalysis, upserts, fence>>
       ELSE LET r == UpsertLastAnalysis(lastAnalysis, key, code, now)
                lastAnalysisChanged == r.rows > 0
            IN  /\ lastAnalysis' = r.table
                /\ call' = [call EXCEPT ![p] =
                       [pc |-> IF lastAnalysisChanged THEN "append" ELSE "idle",
                        key |-> key, code |-> code, rows |-> r.rows,
                        pre |-> CodeOf(lastAnalysis[key]),
                        useq |-> Len(upserts[key]) + 1,
                        conc |-> Pending(key),
                        appended |-> FALSE, err |-> FALSE]]
                /\ upserts' = [upserts EXCEPT ![key] = Append(@, code)]
                /\ fence' = [fence EXCEPT ![key] =
                       IF CodeOf(r.table[key]) # CodeOf(lastAnalysis[key])
                       THEN Append(@, CodeOf(r.table[key])) ELSE @]
                /\ UNCHANGED faulted
    /\ UNCHANGED <<changelog, now, rowVars, passVars, expireVars>>

\* lines 328-337: the insert into the changelog and the return
AuditAppend(p, ok) ==
    /\ call[p].pc = "append"
    /\ IF ok
       THEN /\ changelog' = InsertChangelog(changelog, call[p].key, call[p].code, now)
            /\ call' = [call EXCEPT ![p].pc = "idle", ![p].appended = TRUE]
            /\ UNCHANGED faulted
       ELSE /\ call' = [call EXCEPT ![p].pc = "idle", ![p].err = TRUE]
            /\ faulted' = TRUE
            /\ UNCHANGED changelog
    /\ UNCHANGED <<lastAnalysis, now, ncalls, upserts, fence, rowVars, passVars, expireVars>>

\* the backend's clock advances
Tick ==
    /\ now < MaxTime
    /\ now' = now + 1
    /\ UNCHANGED <<lastAnalysis, changelog, call, ncalls, upserts, fence, faulted,
                   rowVars, passVars, expireVars>>

\* the backend with empty analysis tables, no call made
InitTables ==
    /\ lastAnalysis = [k \in InstanceKeys |-> <<>>]
    /\ changelog = <<>>
    /\ call = [p \in Procs |-> IdleCall]
    /\ ncalls = 0
    /\ upserts = [k \in InstanceKeys |-> <<>>]
    /\ fence = [k \in InstanceKeys |-> <<>>]
    /\ faulted = FALSE
    /\ expired = <<>>

InitAudit ==
    /\ InitTables
    /\ now = 0

\* no pass over a snapshot is modelled
NoPass ==
    /\ snapshot = <<>>
    /\ config = <<>>
    /\ ret = <<>>
    /\ prev = <<>>

Init ==
    /\ InitAudit
    /\ grp = <<>>
    /\ row = <<>>
    /\ ana = <<>>
    /\ NoPass

\* several processes auditing concurrently, storage statements may fail
Next ==
    \/ \E p \in Procs, k \in InstanceKeys, c \in AuditCodes, ok \in BOOLEAN :
           AuditUpsert(p, k, c, ok, MaxCalls)
    \/ \E p \in Procs, ok \in BOOLEAN : AuditAppend(p, ok)

Spec == Init /\ [][Next]_vars

\* one process auditing, one call after the other, storage never fails
NextSeq ==
    \/ \E k \in InstanceKeys, c \in AuditCodes : AuditUpsert(1, k, c, TRUE, MaxSeqCalls)
    \/ AuditAppend(1, TRUE)
    \/ Tick

SpecSeq == Init /\ [][NextSeq]_vars

\* ------------------------------------------------- the analysis query
\* SQL values: integers, with truth values 1 and 0; SqlNull is SQL's NULL.
SqlNull == 0 - 1

SqlBool(b) == IF b THEN 1 ELSE 0
SqlLe(x, y) == IF x = SqlNull \/ y = SqlNull THEN SqlNull ELSE SqlBool(x <= y)
SqlLt(x, y) == IF x = SqlNull \/ y = SqlNull THEN SqlNull ELSE SqlBool(x < y)
SqlEq(x, y) == IF x = SqlNull \/ y = SqlNull THEN SqlNull ELSE SqlBool(x = y)
SqlNe(x, y) == IF x = SqlNull \/ y = SqlNull THEN SqlNull ELSE SqlBool(x # y)
SqlPlus(x, y) == IF x = SqlNull \/ y = SqlNull THEN SqlNull ELSE x + y
SqlAnd(x, y) ==
    IF x = 0 \/ y = 0 THEN 0 ELSE IF x = SqlNull \/ y = SqlNull THEN SqlNull ELSE 1
SqlOr(x, y) ==
    IF (x # SqlNull /\ x # 0) \/ (y # SqlNull /\ y # 0) THEN 1
    ELSE IF x = SqlNull \/ y = SqlNull THEN SqlNull ELSE 0
SqlIsNotFalse(x) == SqlBool(x # 0)
SqlIsTrue(x) == SqlBool(x # SqlNull /\ x # 0)
SqlIsFalse(x) == SqlBool(x = 0)
SqlIsNull(x) == SqlBool(x = SqlNull)
IfNull(x, y) == IF x = SqlNull THEN y ELSE x

\* last_io_error RLIKE 'error (connecting|reconnecting) to master', on the
\* error texts of the model (a NULL text gives NULL)
IOErrors == {"", "error connecting to master", "error reconnecting to master",
             "Got fatal error 1236 from master"}
RLikeConnectError(text) ==
    IF text = NULL THEN SqlNull
    ELSE SqlBool(text \in {"error connecting to master", "error reconnecting to master"})

RECURSIVE SqlSum(_)
\* SUM(): NULL values are skipped, and the sum of no value is NULL
SqlSum(vals) ==
    IF vals = <<>> THEN SqlNull
    ELSE LET rest == SqlSum(Tail(vals))
         IN  IF Head(vals) = SqlNull THEN rest
             ELSE IF rest = SqlNull THEN Head(vals) ELSE Head(vals) + rest

RECURSIVE SqlCount(_)
\* COUNT(expr): the number of non-NULL values
SqlCount(vals) ==
    IF vals = <<>> THEN 0
    ELSE SqlCount(Tail(vals)) + (IF Head(vals) = SqlNull THEN 0 ELSE 1)

\* the slave_instance columns of a joined row that found no slave (LEFT JOIN)
NoSlave ==
    [server_id |-> SqlNull, last_checked |-> SqlNull, last_seen |-> SqlNull,
     slave_io_running |-> SqlNull, slave_sql_running |-> SqlNull,
     last_io_error |-> NULL, oracle_gtid |-> SqlNull, binlog_server |-> SqlNull]

\* the joined rows of one group (master_instance.hostname, master_instance.port):
\* one per slave_instance row whose master_host, master_port name the instance,
\* or a single row with NULL slave columns
JoinedSlaves(g) == IF g.slaves = <<>> THEN <<NoSlave>> ELSE g.slaves

InstancePollSeconds == 1   \* config.Config.InstancePollSeconds

\* COUNT(slave_instance.server_id) AS count_slaves
CountSlavesColumn(js) == SqlCount([i \in 1..Len(js) |-> js[i].server_id])

\* IFNULL(SUM(last_checked <= last_seen), 0) AS count_valid_slaves
CountValidSlavesColumn(js) ==
    IfNull(SqlSum([i \in 1..Len(js) |-> SqlLe(js[i].last_checked, js[i].last_seen)]), 0)

CountReplicatingSlavesAnyFreshness(js) ==
    IfNull(SqlSum([i \in 1..Len(js) |->
        SqlAnd(SqlNe(js[i].slave_io_running, 0), SqlNe(js[i].slave_sql_running, 0))]), 0)

\* IFNULL(SUM(last_checked <= last_seen AND slave_io_running != 0
\*            AND slave_sql_running != 0), 0) AS count_valid_replicating_slaves
CountValidReplicatingSlavesColumn(js) ==
    IfNull(SqlSum([i \in 1..Len(js) |->
        SqlAnd(SqlAnd(SqlLe(js[i].last_checked, js[i].last_seen),
                      SqlNe(js[i].slave_io_running, 0)),
               SqlNe(js[i].slave_sql_running, 0))]), 0)

\* IFNULL(SUM(last_checked <= last_seen AND slave_io_running = 0
\*            AND last_io_error RLIKE '...' AND slave_sql_running = 1), 0)
\*     AS count_slaves_failing_to_connect_to_master
CountSlavesFailingToConnectColumn(js) ==
    IfNull(SqlSum([i \in 1..Len(js) |->
        SqlAnd(SqlAnd(SqlAnd(SqlLe(js[i].last_checked, js[i].last_seen),
                             SqlEq(js[i].slave_io_running, 0)),
                      RLikeConnectError(js[i].last_io_error)),
               SqlEq(js[i].slave_sql_running, 1))]), 0)

\* the SELECT list of the query, for one group, at backend time t
AnalysisRow(g, t) ==
    LET m == g.m
        js == JoinedSlaves(g)
        downtime_active == IF g.downtime = <<>> THEN SqlNull ELSE 1
        end_timestamp == IF g.downtime = <<>> THEN SqlNull ELSE g.downtime[1].end_timestamp
    IN  [hostname |-> m.hostname,
         port |-> m.port,
         master_host |-> m.master_host,
         master_port |-> m.master_port,
         is_last_check_valid |->
             SqlIsTrue(SqlAnd(SqlLe(m.last_checked, m.last_seen),
                              SqlLe(m.last_attempted_check,
                                    SqlPlus(m.last_seen, 2 * InstancePollSeconds)))),
         is_master |-> SqlOr(SqlBool(m.master_host \in {"", "_"}),
                             SqlEq(m.master_port, 0)),
         is_co_master |-> m.is_co_master,
         is_cluster_master |->
             SqlBool([Hostname |-> m.hostname, Port |-> m.port] = m.cluster_name),
         count_slaves |-> CountSlavesColumn(js),
         count_valid_slaves |-> CountValidSlavesColumn(js),
         count_valid_replicating_slaves |-> CountValidReplicatingSlavesColumn(js),
         count_slaves_failing_to_connect_to_master |-> CountSlavesFailingToConnectColumn(js),
         replication_depth |-> m.replication_depth,
         is_failing_to_connect_to_master |->
             SqlAnd(SqlAnd(SqlEq(m.slave_sql_running, 1), SqlEq(m.slave_io_running, 0)),
                    RLikeConnectError(m.last_io_error)),
         is_downtimed |->
             SqlIsFalse(SqlOr(SqlIsNull(downtime_active), SqlLt(end_timestamp, t))),
         is_binlog_server |-> m.binlog_server,
         is_pseudo_gtid |-> m.pseudo_gtid,
         supports_oracle_gtid |-> m.supports_oracle_gtid,
         count_oracle_gtid_slaves |-> SqlSum([i \in 1..Len(js) |-> js[i].oracle_gtid]),
         count_binlog_server_slaves |-> SqlSum([i \in 1..Len(js) |-> js[i].binlog_server]),
         is_mariadb_gtid |-> m.mariadb_gtid]

\* sqlutils.RowMap getters: a NULL column reads as false, as 0
GetBool(v) == v # SqlNull /\ v # 0
GetUint(v) == IF v = SqlNull THEN 0 ELSE v
GetInt(v) == IF v = SqlNull THEN 0 ELSE v

\* ------------------------------------------- the classifier (lines 143-267)

\* lines 174-267: the chain of guards; the first that holds sets Analysis and
\* Description, and none leaves them as line 143 set them
Classify(a) ==
    IF a.IsMaster /\ ~a.LastCheckValid /\ a.CountSlaves = 0 THEN
        [Analysis |-> "DeadMasterWithoutSlaves",
         Description |-> "Master cannot be reached by orchestrator and has no slave"]
    ELSE IF a.IsMaster /\ ~a.LastCheckValid /\ a.CountValidSlaves = a.CountSlaves
            /\ a.CountValidReplicatingSlaves = 0 THEN
        [Analysis |-> "DeadMaster",
         Description |-> "Master cannot be reached by orchestrator and none of its slaves is replicating"]
    ELSE IF a.IsMaster /\ ~a.LastCheckValid /\ a.CountSlaves > 0 /\ a.CountValidSlaves = 0
            /\ a.CountValidReplicatingSlaves = 0 THEN
        [Analysis |-> "DeadMasterAndSlaves",
         Description |-> "Master cannot be reached by orchestrator and none of its slaves is replicating"]
    ELSE IF a.IsMaster /\ ~a.LastCheckValid /\ a.CountValidSlaves < a.CountSlaves
            /\ a.CountValidSlaves > 0 /\ a.CountValidReplicatingSlaves = 0 THEN
        [Analysis |-> "DeadMasterAndSomeSlaves",
         Description |-> "Master cannot be reached by orchestrator; some of its slaves are unreachable and none of its reachable slaves is replicating"]
    ELSE IF a.IsMaster /\ ~a.LastCheckValid /\ a.CountValidSlaves > 0
            /\ a.CountValidReplicatingSlaves > 0 THEN
        [Analysis |-> "UnreachableMaster",
         Description |-> "Master cannot be reached by orchestrator but it has replicating slaves; possibly a network/host issue"]
    ELSE IF a.IsMaster /\ a.LastCheckValid /\ a.CountSlaves = 1
            /\ a.CountValidSlaves = a.CountSlaves /\ a.CountValidReplicatingSlaves = 0 THEN
        [Analysis |-> "MasterSingleSlaveNotReplicating",
         Description |-> "Master is reachable but its single slave is not replicating"]
    ELSE IF a.IsMaster /\ a.LastCheckValid /\ a.CountSlaves = 1 /\ a.CountValidSlaves = 0 THEN
        [Analysis |-> "MasterSingleSlaveDead",
         Description |-> "Master is reachable but its single slave is dead"]
    ELSE IF a.IsMaster /\ a.LastCheckValid /\ a.CountSlaves > 1
            /\ a.CountValidSlaves = a.CountSlaves /\ a.CountValidReplicatingSlaves = 0 THEN
        [Analysis |-> "AllMasterSlavesNotReplicating",
         Description |-> "Master is reachable but none of its slaves is replicating"]
    ELSE IF a.IsMaster /\ a.LastCheckValid /\ a.CountSlaves > 1
            /\ a.CountValidSlaves < a.CountSlaves /\ a.CountValidSlaves > 0
            /\ a.CountValidReplicatingSlaves = 0 THEN
        [Analysis |-> "AllMasterSlavesNotReplicatingOrDead",
         Description |-> "Master is reachable but none of its slaves is replicating"]
    ELSE IF a.IsCoMaster /\ ~a.LastCheckValid /\ a.CountSlaves > 0
            /\ a.CountValidSlaves = a.CountSlaves /\ a.CountValidReplicatingSlaves = 0 THEN
        [Analysis |-> "DeadCoMaster",
         Description |-> "Co-master cannot be reached by orchestrator and none of its slaves is replicating"]
    ELSE IF a.IsCoMaster /\ ~a.LastCheckValid /\ a.CountSlaves > 0
            /\ a.CountValidSlaves < a.CountSlaves /\ a.CountValidSlaves > 0
            /\ a.CountValidReplicatingSlaves = 0 THEN
        [Analysis |-> "DeadCoMasterAndSomeSlaves",
         Description |-> "Co-master cannot be reached by orchestrator; some of its slaves are unreachable and none of its reachable slaves is replicating"]
    ELSE IF a.IsCoMaster /\ ~a.LastCheckValid /\ a.CountValidSlaves > 0
            /\ a.CountValidReplicatingSlaves > 0 THEN
        [Analysis |-> "UnreachableCoMaster",
         Description |-> "Co-master cannot be reached by orchestrator but it has replicating slaves; possibly a network/host issue"]
    ELSE IF a.IsCoMaster /\ a.LastCheckValid /\ a.CountSlaves > 0
            /\ a.CountValidReplicatingSlaves = 0 THEN
        [Analysis |-> "AllCoMasterSlavesNotReplicating",
         Description |-> "Co-master is reachable but none of its slaves is replicating"]
    ELSE IF ~a.IsMaster /\ ~a.LastCheckValid /\ a.CountSlaves = 1
            /\ a.CountValidSlaves = a.CountSlaves
            /\ a.CountSlavesFailingToConnectToMaster = a.CountSlaves
            /\ a.CountValidReplicatingSlaves = 0 THEN
        [Analysis |-> "DeadIntermediateMasterWithSingleSlaveFailingToConnect",
         Description |-> "Intermediate master cannot be reached by orchestrator and its (single) slave is failing to connect"]
    ELSE IF ~a.IsMaster /\ ~a.LastCheckValid /\ a.CountSlaves = 1
            /\ a.CountValidSlaves = a.CountSlaves /\ a.CountValidReplicatingSlaves = 0 THEN
        [Analysis |-> "DeadIntermediateMasterWithSingleSlave",
         Description |-> "Intermediate master cannot be reached by orchestrator and its (single) slave is not replicating"]
    ELSE IF ~a.IsMaster /\ ~a.LastCheckValid /\ a.CountSlaves > 1
            /\ a.CountValidSlaves = a.CountSlaves /\ a.CountValidReplicatingSlaves = 0 THEN
        [Analysis |-> "DeadIntermediateMaster",
         Description |-> "Intermediate master cannot be reached by orchestrator and none of its slaves is replicating"]
    ELSE IF ~a.IsMaster /\ ~a.LastCheckValid /\ a.CountValidSlaves < a.CountSlaves
            /\ a.CountValidSlaves > 0 /\ a.CountValidReplicatingSlaves = 0 THEN
        [Analysis |-> "DeadIntermediateMasterAndSomeSlaves",
         Description |-> "Intermediate master cannot be reached by orchestrator; some of its slaves are unreachable and none of its reachable slaves is replicating"]
    ELSE IF ~a.IsMaster /\ ~a.LastCheckValid /\ a.CountValidSlaves > 0
            /\ a.CountValidReplicatingSlaves > 0 THEN
        [Analysis |-> "UnreachableIntermediateMaster",
         Description |-> "Intermediate master cannot be reached by orchestrator but it has replicating slaves; possibly a network/host issue"]
    ELSE IF ~a.IsMaster /\ a.LastCheckValid /\ a.CountSlaves > 1
            /\ a.CountValidReplicatingSlaves = 0
            /\ a.CountSlavesFailingToConnectToMaster > 0
            /\ a.CountSlavesFailingToConnectToMaster = a.CountValidSlaves THEN
        [Analysis |-> "AllIntermediateMasterSlavesFailingToConnectOrDead",
         Description |-> "Intermediate master is reachable but all of its slaves are failing to connect"]
    ELSE IF ~a.IsMaster /\ a.LastCheckValid /\ a.CountSlaves > 0
            /\ a.CountValidReplicatingSlaves = 0 THEN
        [Analysis |-> "AllIntermediateMasterSlavesNotReplicating",
         Description |-> "Intermediate master is reachable but none of its slaves is replicating"]
    ELSE IF a.IsBinlogServer /\ a.IsFailingToConnectToMaster THEN
        [Analysis |-> "BinlogServerFailingToConnectToMaster",
         Description |-> "Binlog server is unable to connect to its master"]
    ELSE IF a.ReplicationDepth = 1 /\ a.IsFailingToConnectToMaster THEN
        [Analysis |-> "FirstTierSlaveFailingToConnectToMaster",
         Description |-> "1st tier slave (directly replicating from topology master) is unable to connect to the master"]
    ELSE [Analysis |-> a.Analysis, Description |-> a.Description]

\* lines 174-267: the guards of the chain, in chain order, each evaluated on
\* the analysis a, with the code its branch assigns
Guards(a) ==
    << <<a.IsMaster /\ ~a.LastCheckValid /\ a.CountSlaves = 0,
         "DeadMasterWithoutSlaves">>,
       <<a.IsMaster /\ ~a.LastCheckValid /\ a.CountValidSlaves = a.CountSlaves
             /\ a.CountValidReplicatingSlaves = 0,
         "DeadMaster">>,
       <<a.IsMaster /\ ~a.LastCheckValid /\ a.CountSlaves > 0 /\ a.CountValidSlaves = 0
             /\ a.CountValidReplicatingSlaves = 0,
         "DeadMasterAndSlaves">>,
       <<a.IsMaster /\ ~a.LastCheckValid /\ a.CountValidSlaves < a.CountSlaves
             /\ a.CountValidSlaves > 0 /\ a.CountValidReplicatingSlaves = 0,
         "DeadMasterAndSomeSlaves">>,
       <<a.IsMaster /\ ~a.LastCheckValid /\ a.CountValidSlaves > 0
             /\ a.CountValidReplicatingSlaves > 0,
         "UnreachableMaster">>,
       <<a.IsMaster /\ a.LastCheckValid /\ a.CountSlaves = 1
             /\ a.CountValidSlaves = a.CountSlaves /\ a.CountValidReplicatingSlaves = 0,
         "MasterSingleSlaveNotReplicating">>,
       <<a.IsMaster /\ a.LastCheckValid /\ a.CountSlaves = 1 /\ a.CountValidSlaves = 0,
         "MasterSingleSlaveDead">>,
       <<a.IsMaster /\ a.LastCheckValid /\ a.CountSlaves > 1
             /\ a.CountValidSlaves = a.CountSlaves /\ a.CountValidReplicatingSlaves = 0,
         "AllMasterSlavesNotReplicating">>,
       <<a.IsMaster /\ a.LastCheckValid /\ a.CountSlaves > 1
             /\ a.CountValidSlaves < a.CountSlaves /\ a.CountValidSlaves > 0
             /\ a.CountValidReplicatingSlaves = 0,
         "AllMasterSlavesNotReplicatingOrDead">>,
       <<a.IsCoMaster /\ ~a.LastCheckValid /\ a.CountSlaves > 0
             /\ a.CountValidSlaves = a.CountSlaves /\ a.CountValidReplicatingSlaves = 0,
         "DeadCoMaster">>,
       <<a.IsCoMaster /\ ~a.LastCheckValid /\ a.CountSlaves > 0
             /\ a.CountValidSlaves < a.CountSlaves /\ a.CountValidSlaves > 0
             /\ a.CountValidReplicatingSlaves = 0,
         "DeadCoMasterAndSomeSlaves">>,
       <<a.IsCoMaster /\ ~a.LastCheckValid /\ a.CountValidSlaves > 0
             /\ a.CountValidReplicatingSlaves > 0,
         "UnreachableCoMaster">>,
       <<a.IsCoMaster /\ a.LastCheckValid /\ a.CountSlaves > 0
             /\ a.CountValidReplicatingSlaves = 0,
         "AllCoMasterSlavesNotReplicating">>,
       <<~a.IsMaster /\ ~a.LastCheckValid /\ a.CountSlaves = 1
             /\ a.CountValidSlaves = a.CountSlaves
             /\ a.CountSlavesFailingToConnectToMaster = a.CountSlaves
             /\ a.CountValidReplicatingSlaves = 0,
         "DeadIntermediateMasterWithSingleSlaveFailingToConnect">>,
       <<~a.IsMaster /\ ~a.LastCheckValid /\ a.CountSlaves = 1
             /\ a.CountValidSlaves = a.CountSlaves /\ a.CountValidReplicatingSlaves = 0,
         "DeadIntermediateMasterWithSingleSlave">>,
       <<~a.IsMaster /\ ~a.LastCheckValid /\ a.CountSlaves > 1
             /\ a.CountValidSlaves = a.CountSlaves /\ a.CountValidReplicatingSlaves = 0,
         "DeadIntermediateMaster">>,
       <<~a.IsMaster /\ ~a.LastCheckValid /\ a.CountValidSlaves < a.CountSlaves
             /\ a.CountValidSlaves > 0 /\ a.CountValidReplicatingSlaves = 0,
         "DeadIntermediateMasterAndSomeSlaves">>,
       <<~a.IsMaster /\ ~a.LastCheckValid /\ a.CountValidSlaves > 0
             /\ a.CountValidReplicatingSlaves > 0,
         "UnreachableIntermediateMaster">>,
       <<~a.IsMaster /\ a.LastCheckValid /\ a.CountSlaves > 1
             /\ a.CountValidReplicatingSlaves = 0
             /\ a.CountSlavesFailingToConnectToMaster > 0
             /\ a.CountSlavesFailingToConnectToMaster = a.CountValidSlaves,
         "AllIntermediateMasterSlavesFailingToConnectOrDead">>,
       <<~a.IsMaster /\ a.LastCheckValid /\ a.CountSlaves > 0
             /\ a.CountValidReplicatingSlaves = 0,
         "AllIntermediateMasterSlavesNotReplicating">>,
       <<a.IsBinlogServer /\ a.IsFailingToConnectToMaster,
         "BinlogServerFailingToConnectToMaster">>,
       <<a.ReplicationDepth = 1 /\ a.IsFailingToConnectToMaster,
         "FirstTierSlaveFailingToConnectToMaster">> >>

\* lines 143-172: the ReplicationAnalysis read from a row of the query
ReadAnalysis(m) ==
    LET CountValidSlaves == GetUint(m.count_valid_slaves)
    IN  [Analysis |-> "NoProblem",
         Description |-> "",
         AnalyzedInstanceKey |-> [Hostname |-> m.hostname, Port |-> GetInt(m.port)],
         AnalyzedInstanceMasterKey |->
             [Hostname |-> m.master_host, Port |-> GetInt(m.master_port)],
         IsMaster |-> GetBool(m.is_master),
         IsCoMaster |-> GetBool(m.is_co_master),
         LastCheckValid |-> GetBool(m.is_last_check_valid),
         CountSlaves |-> GetUint(m.count_slaves),
         CountValidSlaves |-> CountValidSlaves,
         CountValidReplicatingSlaves |-> GetUint(m.count_valid_replicating_slaves),
         CountSlavesFailingToConnectToMaster |->
             GetUint(m.count_slaves_failing_to_connect_to_master),
         ReplicationDepth |-> GetUint(m.replication_depth),
         IsFailingToConnectToMaster |-> GetBool(m.is_failing_to_connect_to_master),
         IsDowntimed |-> GetBool(m.is_downtimed),
         IsBinlogServer |-> GetBool(m.is_binlog_server),
         OracleGTIDImmediateTopology |->
             /\ GetBool(m.supports_oracle_gtid)
             /\ GetUint(m.count_oracle_gtid_slaves) = CountValidSlaves
             /\ CountValidSlaves > 0,
         PseudoGTIDImmediateTopology |-> GetBool(m.is_pseudo_gtid),
         MariaDBGTIDImmediateTopology |-> GetBool(m.is_mariadb_gtid),
         BinlogServerImmediateTopology |->
             /\ GetUint(m.count_binlog_server_slaves) = CountValidSlaves
             /\ CountValidSlaves > 0]

AnalyzeIgnoringReplication(m) ==
    LET a == ReadAnalysis(m)
        c == Classify([a EXCEPT !.CountValidReplicatingSlaves = 0])
    IN  [a EXCEPT !.Analysis = c.Analysis, !.Description = c.Description]

\* lines 143-267: the analysis of a row, classified
Analyze(m) ==
    LET a == ReadAnalysis(m)
        c == Classify(a)
    IN  [a EXCEPT !.Analysis = c.Analysis, !.Description = c.Description]

\* ------------------------------------------- SpecRow: one group of the query

\* a slave_instance row: i selects its freshness, its replication threads and
\* its last IO error; n is its place among the slaves of the group
SlaveOfKind(i, n) ==
    [server_id |-> n,
     last_checked |-> IF i % 2 = 0 THEN 1 ELSE 2,
     last_seen |-> 1,
     slave_io_running |-> (i \div 2) % 2,
     slave_sql_running |-> (i \div 4) % 2,
     last_io_error |-> IF (i \div 8) % 2 = 0 THEN "error connecting to master"
                       ELSE "Got fatal error 1236 from master",
     oracle_gtid |-> 0,
     binlog_server |-> 0]

SlaveKindIds == 0..15

\* the slave sets of up to n slaves, each once (in non-decreasing order of kind)
SlaveSets(n) ==
    LET picks == UNION {[1..l -> SlaveKindIds] : l \in 0..n}
        sorted == {ks \in picks : \A i \in 1..(Len(ks) - 1) : ks[i] <= ks[i + 1]}
    IN  {[i \in 1..Len(ks) |-> SlaveOfKind(ks[i], i)] : ks \in sorted}

\* the analysed instances of SpecRow: fresh or stale, master or replica,
\* co-master or not, binlog server or not, failing to connect or replicating
RowInstances ==
    {[hostname |-> "db1", port |-> 3306,
      master_host |-> mh, master_port |-> IF mh = "" THEN 0 ELSE 3306,
      cluster_name |-> [Hostname |-> "db1", Port |-> 3306],
      last_checked |-> lc, last_seen |-> 1, last_attempted_check |-> lc,
      is_co_master |-> co, replication_depth |-> d,
      slave_sql_running |-> 1, slave_io_running |-> io,
      last_io_error |-> IF io = 0 THEN "error reconnecting to master" ELSE "",
      binlog_server |-> bs, pseudo_gtid |-> 0, supports_oracle_gtid |-> 0,
      mariadb_gtid |-> 0] :
        mh \in {"", "db0"}, lc \in {1, 2}, co \in {0, 1}, d \in 0..MaxDepth,
        io \in {0, 1}, bs \in {0, 1}}

RowGroups ==
    {[m |-> m, slaves |-> ss, maintenance |-> FALSE, downtime |-> <<>>] :
        m \in RowInstances, ss \in SlaveSets(MaxSlaves)}

InitRow ==
    /\ InitAudit
    /\ NoPass
    /\ grp \in {<<g>> : g \in RowGroups}
    /\ row = <<>>
    /\ ana = <<>>

\* the query computes the row of the group
QueryRow ==
    /\ row = <<>>
    /\ row' = <<AnalysisRow(grp[1], now)>>
    /\ UNCHANGED <<auditVars, grp, ana, passVars, expireVars>>

\* the callback reads the row and classifies it
AnalyzeRow ==
    /\ row # <<>>
    /\ ana = <<>>
    /\ ana' = <<Analyze(row[1])>>
    /\ UNCHANGED <<auditVars, grp, row, passVars, expireVars>>

NextRow == QueryRow \/ AnalyzeRow

SpecRow == InitRow /\ [][NextRow]_vars

\* ------------------------------------- SpecPass: GetReplicationAnalysis

\* regexp.MatchString(filter, hostname) on the patterns and hostnames of the
\* model: an unanchored match; a pattern that does not compile matches nothing
MatchString(filter, hostname) ==
    CASE filter = "db1" -> hostname = "db1"
      [] filter = "2$" -> hostname = "db2"
      [] filter = "^db" -> hostname \in {"db1", "db2"}
      [] OTHER -> FALSE

\* lines 274-279: some filter of config.Config.RecoveryIgnoreHostnameFilters matches
MatchesIgnoreFilter(filters, hostname) ==
    \E i \in 1..Len(filters) : MatchString(filters[i], hostname)

\* the HAVING clause as it was before OR count_slaves > 0 was added (line 45)
ReductionClauseWithoutCountSlaves(m) ==
    SqlIsTrue(
        SqlOr(SqlEq(m.is_last_check_valid, 0),
        SqlOr(SqlLt(0, m.count_slaves_failing_to_connect_to_master),
        SqlOr(SqlLt(m.count_valid_slaves, m.count_slaves),
        SqlOr(SqlLt(m.count_valid_replicating_slaves, m.count_slaves),
              m.is_failing_to_connect_to_master))))) = 1

\* lines 34-44: the HAVING clause of ReduceReplicationAnalysisCount
ReductionClause(m) ==
    SqlIsTrue(
        SqlOr(SqlEq(m.is_last_check_valid, 0),
        SqlOr(SqlLt(0, m.count_slaves_failing_to_connect_to_master),
        SqlOr(SqlLt(m.count_valid_slaves, m.count_slaves),
        SqlOr(SqlLt(m.count_valid_replicating_slaves, m.count_slaves),
        SqlOr(m.is_failing_to_connect_to_master,
              SqlLt(0, m.count_slaves))))))) = 1

\* ORDER BY is_master DESC, is_cluster_master DESC, count_slaves DESC:
\* row x may come before row y
OrderedBefore(x, y) ==
    \/ x.is_master > y.is_master
    \/ /\ x.is_master = y.is_master
       /\ \/ x.is_cluster_master > y.is_cluster_master
          \/ /\ x.is_cluster_master = y.is_cluster_master
             /\ x.count_slaves >= y.count_slaves

QueryResultsIgnoringMaintenance(snap, reduce, t) ==
    LET all == {AnalysisRow(snap[h], t) : h \in DOMAIN snap}
        rows == IF reduce THEN {m \in all : ReductionClause(m)} ELSE all
        n == Cardinality(rows)
    IN  {rs \in [1..n -> rows] :
            /\ \A i, j \in 1..n : i # j => rs[i] # rs[j]
            /\ \A i, j \in 1..n : i < j => OrderedBefore(rs[i], rs[j])}

\* lines 47-140: the orders in which the query may return its rows: one row
\* per instance that has no active maintenance row, those the reduction
\* clause keeps when reduce is set, sorted by the ORDER BY clause
QueryResults(snap, reduce, t) ==
    LET groups == {h \in DOMAIN snap : ~snap[h].maintenance}
        all == {AnalysisRow(snap[h], t) : h \in groups}
        rows == IF reduce THEN {m \in all : ReductionClause(m)} ELSE all
        n == Cardinality(rows)
    IN  {rs \in [1..n -> rows] :
            /\ \A i, j \in 1..n : i # j => rs[i] # rs[j]
            /\ \A i, j \in 1..n : i < j => OrderedBefore(rs[i], rs[j])}

\* AuditInstanceAnalysisInChangelog run from start to end by one caller;
\* storage tells which statements fail: "upsert", "append", or none
AuditInstanceAnalysisInChangelog(la, cl, key, code, t, storage) ==
    IF storage = "upsert" THEN [la |-> la, cl |-> cl, err |-> TRUE]
    ELSE LET r == UpsertLastAnalysis(la, key, code, t)
             lastAnalysisChanged == r.rows > 0
         IN  IF ~lastAnalysisChanged THEN [la |-> r.table, cl |-> cl, err |-> FALSE]
             ELSE IF storage = "append" THEN [la |-> r.table, cl |-> cl, err |-> TRUE]
             ELSE [la |-> r.table, cl |-> InsertChangelog(cl, key, code, t), err |-> FALSE]

CallbackAuditingReportedOnly(acc, m, cfg, includeDowntimed, t, storage) ==
    LET a == Analyze(m)
        skipThisHost ==
            \/ MatchesIgnoreFilter(cfg.RecoveryIgnoreHostnameFilters,
                                   a.AnalyzedInstanceKey.Hostname)
            \/ (a.IsDowntimed /\ ~includeDowntimed)
        reported == a.Analysis # "NoProblem" /\ ~skipThisHost
        audit == AuditInstanceAnalysisInChangelog(acc.la, acc.cl, a.AnalyzedInstanceKey,
                                                  a.Analysis, t, storage)
        audited == a.CountSlaves > 0 /\ reported
    IN  [result |-> IF reported THEN Append(acc.result, a) ELSE acc.result,
         analyses |-> Append(acc.analyses, a),
         audits |-> IF audited
                    THEN Append(acc.audits, [key |-> a.AnalyzedInstanceKey,
                                             code |-> a.Analysis, err |-> audit.err])
                    ELSE acc.audits,
         la |-> IF audited THEN audit.la ELSE acc.la,
         cl |-> IF audited THEN audit.cl ELSE acc.cl]

CallbackAlwaysSkippingDowntimed(acc, m, cfg, includeDowntimed, t, storage) ==
    LET a == Analyze(m)
        skipThisHost ==
            \/ MatchesIgnoreFilter(cfg.RecoveryIgnoreHostnameFilters,
                                   a.AnalyzedInstanceKey.Hostname)
            \/ a.IsDowntimed
        reported == a.Analysis # "NoProblem" /\ ~skipThisHost
        audit == AuditInstanceAnalysisInChangelog(acc.la, acc.cl, a.AnalyzedInstanceKey,
                                                  a.Analysis, t, storage)
        audited == a.CountSlaves > 0
    IN  [result |-> IF reported THEN Append(acc.result, a) ELSE acc.result,
         analyses |-> Append(acc.analyses, a),
         audits |-> IF audited
                    THEN Append(acc.audits, [key |-> a.AnalyzedInstanceKey,
                                             code |-> a.Analysis, err |-> audit.err])
                    ELSE acc.audits,
         la |-> IF audited THEN audit.la ELSE acc.la,
         cl |-> IF audited THEN audit.cl ELSE acc.cl]

\* lines 142-292: the callback run on one row m of the query. acc holds the
\* result list and the two tables so far, with the analyses built and the
\* audit calls made (the value each call returned is dropped at line 289)
Callback(acc, m, cfg, includeDowntimed, t, storage) ==
    LET a == Analyze(m)
        skipThisHost ==
            \/ MatchesIgnoreFilter(cfg.RecoveryIgnoreHostnameFilters,
                                   a.AnalyzedInstanceKey.Hostname)
            \/ (a.IsDowntimed /\ ~includeDowntimed)
        reported == a.Analysis # "NoProblem" /\ ~skipThisHost
        audit == AuditInstanceAnalysisInChangelog(acc.la, acc.cl, a.AnalyzedInstanceKey,
                                                  a.Analysis, t, storage)
        audited == a.CountSlaves > 0
    IN  [result |-> IF reported THEN Append(acc.result, a) ELSE acc.result,
         analyses |-> Append(acc.analyses, a),
         audits |-> IF audited
                    THEN Append(acc.audits, [key |-> a.AnalyzedInstanceKey,
                                             code |-> a.Analysis, err |-> audit.err])
                    ELSE acc.audits,
         la |-> IF audited THEN audit.la ELSE acc.la,
         cl |-> IF audited THEN audit.cl ELSE acc.cl]

RECURSIVE RowsMap(_, _, _, _, _, _)
\* db.QueryOrchestratorRowsMap: the callback on every row, in order
RowsMap(rs, acc, cfg, includeDowntimed, t, storage) ==
    IF rs = <<>> THEN acc
    ELSE RowsMap(Tail(rs), Callback(acc, Head(rs), cfg, includeDowntimed, t, storage),
                 cfg, includeDowntimed, t, storage)

StorageModes == {"ok", "query", "upsert", "append"}

\* lines 30-298: one call of GetReplicationAnalysis. storage tells which
\* statements of the backend fail during the call: the query, the upserts,
\* the changelog inserts, or none
GetReplicationAnalysis(includeDowntimed, storage) ==
    /\ prev' = IF ret = <<>> THEN <<>>
               ELSE <<[includeDowntimed |-> ret[1].includeDowntimed, err |-> ret[1].err,
                       result |-> ret[1].result]>>
    /\ IF storage = "query"
       THEN /\ ret' = <<[includeDowntimed |-> includeDowntimed, storage |-> storage,
                         reduce |-> config.ReduceReplicationAnalysisCount,
                         result |-> <<>>, err |-> TRUE, analyses |-> <<>>,
                         audits |-> <<>>]>>
            /\ faulted' = TRUE
            /\ UNCHANGED <<lastAnalysis, changelog>>
       ELSE \E rs \in QueryResults(snapshot, config.ReduceReplicationAnalysisCount, now) :
                LET out == RowsMap(rs, [result |-> <<>>, analyses |-> <<>>, audits |-> <<>>,
                                        la |-> lastAnalysis, cl |-> changelog],
                                   config, includeDowntimed, now, storage)
                IN  /\ ret' = <<[includeDowntimed |-> includeDowntimed, storage |-> storage,
                                 reduce |-> config.ReduceReplicationAnalysisCount,
                                 result |-> out.result, err |-> FALSE,
                                 analyses |-> out.analyses, audits |-> out.audits]>>
                    /\ lastAnalysis' = out.la
                    /\ changelog' = out.cl
                    /\ faulted' = (faulted \/ \E i \in 1..Len(out.audits) : out.audits[i].err)
    /\ UNCHANGED <<now, call, ncalls, upserts, fence, rowVars, snapshot, config, expireVars>>

\* the instances of SpecPass: masters, fresh or stale, with no slave, a
\* replicating slave or a slave whose threads are stopped
PassInstance(h, lc) ==
    [hostname |-> h, port |-> 3306, master_host |-> "", master_port |-> 0,
     cluster_name |-> [Hostname |-> "db1", Port |-> 3306],
     last_checked |-> lc, last_seen |-> 1, last_attempted_check |-> lc,
     is_co_master |-> 0, replication_depth |-> 0,
     slave_sql_running |-> 0, slave_io_running |-> 0, last_io_error |-> "",
     binlog_server |-> 0, pseudo_gtid |-> 0, supports_oracle_gtid |-> 0,
     mariadb_gtid |-> 0]

\* no slave, a replicating slave, a slave whose threads are stopped
PassSlaves(h) ==
    IF h = "db1" THEN {<<>>, <<SlaveOfKind(6, 1)>>, <<SlaveOfKind(0, 1)>>}
    ELSE {<<>>, <<SlaveOfKind(0, 1)>>}

\* the maintenance and downtime rows of an instance: db1 may be under
\* maintenance or have a downtime row, ended or not
PassSideRows(h) ==
    IF h = "db1"
    THEN {[maintenance |-> FALSE, downtime |-> <<>>],
          [maintenance |-> TRUE, downtime |-> <<>>],
          [maintenance |-> FALSE, downtime |-> <<[end_timestamp |-> 0]>>],
          [maintenance |-> FALSE, downtime |-> <<[end_timestamp |-> MaxTime]>>]}
    ELSE {[maintenance |-> FALSE, downtime |-> <<>>]}

PassGroups(h) ==
    {[m |-> PassInstance(h, lc), slaves |-> ss, maintenance |-> sd.maintenance,
      downtime |-> sd.downtime] :
        lc \in {1, 2}, ss \in PassSlaves(h), sd \in PassSideRows(h)}

FilterLists == {<<>>, <<"(", "db1">>}

InitPass ==
    /\ InitTables
    /\ now = 1
    /\ grp = <<>>
    /\ row = <<>>
    /\ ana = <<>>
    /\ snapshot \in {f \in [Hostnames -> UNION {PassGroups(h) : h \in Hostnames}] :
                        \A h \in Hostnames : f[h] \in PassGroups(h)}
    /\ config \in {[RecoveryIgnoreHostnameFilters |-> fl,
                    ReduceReplicationAnalysisCount |-> rd] :
                        fl \in FilterLists, rd \in BOOLEAN}
    /\ ret = <<>>
    /\ prev = <<>>

NextPass ==
    \E includeDowntimed \in BOOLEAN, storage \in StorageModes :
        GetReplicationAnalysis(includeDowntimed, storage)

SpecPass == InitPass /\ [][NextPass]_vars

\* ------------------------- SpecGtid: one group, with the GTID columns varied

\* a slave_instance row of SpecGtid: fresh or stale, with or without each of
\* oracle_gtid, binlog_server, pseudo_gtid and mariadb_gtid; its replication
\* threads run
GtidSlaves ==
    {[server_id |-> 1, last_checked |-> lc, last_seen |-> 1,
      slave_io_running |-> 1, slave_sql_running |-> 1, last_io_error |-> "",
      oracle_gtid |-> og, binlog_server |-> bs, pseudo_gtid |-> pg,
      mariadb_gtid |-> mg] :
        lc \in {1, 2}, og \in {0, 1}, bs \in {0, 1}, pg \in {0, 1}, mg \in {0, 1}}

\* the analysed instances of SpecGtid: fresh masters with or without each of
\* supports_oracle_gtid, pseudo_gtid and mariadb_gtid
GtidInstances ==
    {[PassInstance("db1", 1) EXCEPT !.supports_oracle_gtid = og, !.pseudo_gtid = pg,
                                    !.mariadb_gtid = mg] :
        og \in {0, 1}, pg \in {0, 1}, mg \in {0, 1}}

GtidGroups ==
    {[m |-> m, slaves |-> ss, maintenance |-> FALSE, downtime |-> <<>>] :
        m \in GtidInstances,
        ss \in UNION {[1..l -> GtidSlaves] : l \in 0..MaxGtidSlaves}}

InitGtid ==
    /\ InitAudit
    /\ NoPass
    /\ grp \in {<<g>> : g \in GtidGroups}
    /\ row = <<>>
    /\ ana = <<>>

SpecGtid == InitGtid /\ [][NextRow]_vars

\* ------------------------------ SpecExpire: audits and changelog expiry

DeleteOlderThanTwiceTheWindow(cl, t, hours) ==
    SelectSeq(cl, LAMBDA r : ~(r.analysis_timestamp < t - 2 * hours))

\* lines 343-346: delete from database_instance_analysis_changelog
\* where analysis_timestamp < now() - interval ? hour (the clock counts hours)
DeleteOlderThan(cl, t, hours) ==
    SelectSeq(cl, LAMBDA r : ~(r.analysis_timestamp < t - hours))

\* lines 341-351: ExpireInstanceAnalysisChangelog; ok tells whether the
\* delete statement succeeds
ExpireInstanceAnalysisChangelog(ok) ==
    /\ IF ok
       THEN /\ changelog' = DeleteOlderThan(changelog, now, UnseenInstanceForgetHours)
            /\ expired' = <<[at |-> now, before |-> changelog, after |-> changelog']>>
            /\ UNCHANGED faulted
       ELSE /\ faulted' = TRUE
            /\ UNCHANGED <<changelog, expired>>
    /\ UNCHANGED <<lastAnalysis, now, call, ncalls, upserts, fence, rowVars, passVars>>

\* one process auditing, the clock advancing, and the changelog expired
NextExpire ==
    \/ \E k \in InstanceKeys, c \in AuditCodes : AuditUpsert(1, k, c, TRUE, MaxExpireCalls)
    \/ AuditAppend(1, TRUE)
    \/ Tick
    \/ \E ok \in BOOLEAN : ExpireInstanceAnalysisChangelog(ok)

SpecExpire == Init /\ [][NextExpire]_vars

\* ---------------- SpecCheck: one instance, its check timestamps varied

\* the timestamps of SpecCheck: NULL (missing) or a number of seconds
CheckStamps == {SqlNull} \cup 0..(2 * InstancePollSeconds + MaxSkew)

\* an instance without slaves, with every combination of last_checked,
\* last_seen and last_attempted_check
CheckGroups ==
    {[m |-> [PassInstance("db1", lc) EXCEPT !.last_seen = ls, !.last_attempted_check = la],
      slaves |-> <<>>, maintenance |-> FALSE, downtime |-> <<>>] :
        lc \in CheckStamps, ls \in CheckStamps, la \in CheckStamps}

InitCheck ==
    /\ InitAudit
    /\ NoPass
    /\ grp \in {<<g>> : g \in CheckGroups}
    /\ row = <<>>
    /\ ana = <<>>

SpecCheck == InitCheck /\ [][NextRow]_vars

\* ------ SpecRetry: one process auditing, the changelog insert may fail

\* one call after the other; the upsert succeeds, the insert into the
\* changelog succeeds or fails
NextRetry ==
    \/ \E k \in InstanceKeys, c \in AuditCodes : AuditUpsert(1, k, c, TRUE, MaxRetryCalls)
    \/ \E ok \in BOOLEAN : AuditAppend(1, ok)

SpecRetry == Init /\ [][NextRetry]_vars

\* --------------------------------------------------------------- helpers

RECURSIVE Dedup(_)
\* a sequence with every run of equal successive elements reduced to one
Dedup(s) ==
    IF Len(s) <= 1 THEN s
    ELSE LET d == Dedup(SubSeq(s, 1, Len(s) - 1))
         IN  IF s[Len(s)] = d[Len(d)] THEN d ELSE Append(d, s[Len(s)])

RECURSIVE SelectKey(_, _)
\* the changelog rows of a key, in changelog_id order
SelectKey(cl, key) ==
    IF cl = <<>> THEN <<>>
    ELSE LET rest == SelectKey(Tail(cl), key)
         IN  IF Head(cl).hostname = key.Hostname /\ Head(cl).port = key.Port
             THEN <<Head(cl)>> \o rest ELSE rest

ChangelogCodes(key) ==
    LET rows == SelectKey(changelog, key)
    IN  [i \in 1..Len(rows) |-> rows[i].analysis]


Last(s) == s[Len(s)]

\* ------------------------------------------------------------------ claims

\* C1: with one call after the other on a key and no failure, the changelog of
\* the key holds one entry per call whose code differs from the code of the
\* call before it (the first call included), in call order: its codes are the
\* codes of the calls with every run of equal codes reduced to one. While a
\* call is between its upsert and its append, the entry of that call is the
\* only one missing.
C1_TransitionsOnly ==
    \A k \in InstanceKeys :
        LET d == Dedup(upserts[k])
        IN  ChangelogCodes(k) =
                IF Pending(k) # {} THEN SubSeq(d, 1, Len(d) - 1) ELSE d

C1_Witness ==
    \E k \in InstanceKeys :
        /\ upserts[k] = <<"DeadMaster", "DeadMaster", "NoProblem", "NoProblem", "DeadMaster">>
        /\ Pending(k) = {}
        /\ ChangelogCodes(k) = <<"DeadMaster", "NoProblem", "DeadMaster">>

\* C2: an upsert of code c at time t leaves the record (c, t) when there was
\* none, leaves the timestamp alone when the record held c, and leaves (c, t)
\* when the record held another code.
C2_UpsertRecord ==
    [][\A k \in InstanceKeys :
         upserts'[k] # upserts[k] =>
            LET c == Last(upserts'[k])
                fresh == <<[analysis |-> c, analysis_timestamp |-> now]>>
            IN  IF lastAnalysis[k] = <<>> THEN lastAnalysis'[k] = fresh
                ELSE IF lastAnalysis[k][1].analysis = c
                     THEN lastAnalysis'[k][1].analysis_timestamp =
                              lastAnalysis[k][1].analysis_timestamp
                     ELSE lastAnalysis'[k] = fresh]_vars

\* C3: under concurrent audit calls, a key's record exists from its first
\* upsert on and always holds the code of the upsert executed last on the key.
C3_FenceLastWriterWins ==
    \A k \in InstanceKeys :
        upserts[k] # <<>> =>
            /\ lastAnalysis[k] # <<>>
            /\ lastAnalysis[k][1].analysis = Last(upserts[k])

C3_Witness ==
    \E p, q \in Procs :
        /\ p # q
        /\ p \in call[q].conc
        /\ call[p].pc = "append"
        /\ call[p].key = call[q].key
        /\ call[p].code # call[q].code
        /\ lastAnalysis[call[q].key][1].analysis = call[q].code

\* the calls of p and q ran their upserts one right after the other on the same
\* key, with the same code, and the record did not hold that code before
SameTransition(p, q) ==
    /\ p # q
    /\ call[p].useq > 0
    /\ call[q].useq = call[p].useq + 1
    /\ call[p].key = call[q].key
    /\ call[p].code = call[q].code
    /\ call[p].pre # call[p].code

\* C4: of two calls that observe the same transition to code c, exactly one
\* gets the row-changed signal (the one whose upsert runs first) and only that
\* one appends a changelog entry.
C4_OneSignalOneEntry ==
    \A p, q \in Procs :
        SameTransition(p, q) =>
            /\ call[p].rows > 0
            /\ call[q].rows = 0
            /\ call[q].pc = "idle"
            /\ ~call[q].appended
            /\ (call[p].pc = "idle" /\ ~call[p].err => call[p].appended)

C4_Witness ==
    \E p, q \in Procs :
        /\ SameTransition(p, q)
        /\ p \in call[q].conc
        /\ call[p].pc = "idle"
        /\ call[p].appended
        /\ ~call[q].appended
        /\ Len(SelectKey(changelog, call[p].key)) = 1

\* C5: whenever no audit call is in progress on a key (and no statement has
\* failed), the codes of the key's changelog entries, in insertion order, are
\* the successive distinct codes its record took on, so the newest entry
\* carries the code of the record.
C5_OrderPreserved ==
    \A k \in InstanceKeys :
        (Pending(k) = {} /\ ~faulted) => ChangelogCodes(k) = fence[k]

\* the taxonomy table: its rows in table order, each with its role and
\* condition evaluated on the analysis a
TaxonomyTable(a) ==
    LET stale == ~a.LastCheckValid
        fresh == a.LastCheckValid
        n == a.CountSlaves
        v == a.CountValidSlaves
        r == a.CountValidReplicatingSlaves
        f == a.CountSlavesFailingToConnectToMaster
        master == a.IsMaster
        comaster == a.IsCoMaster
        inter == ~a.IsMaster
    IN  << <<master /\ stale /\ n = 0, "DeadMasterWithoutSlaves">>,
           <<master /\ stale /\ v = n /\ r = 0, "DeadMaster">>,
           <<master /\ stale /\ n > 0 /\ v = 0 /\ r = 0, "DeadMasterAndSlaves">>,
           <<master /\ stale /\ v > 0 /\ v < n /\ r = 0, "DeadMasterAndSomeSlaves">>,
           <<master /\ stale /\ v >= 1 /\ r >= 1, "UnreachableMaster">>,
           <<master /\ fresh /\ n = 1 /\ v = 1 /\ r = 0, "MasterSingleSlaveNotReplicating">>,
           <<master /\ fresh /\ n = 1 /\ v = 0, "MasterSingleSlaveDead">>,
           <<master /\ fresh /\ n > 1 /\ v = n /\ r = 0, "AllMasterSlavesNotReplicating">>,
           <<master /\ fresh /\ n > 1 /\ v < n /\ v > 0 /\ r = 0,
             "AllMasterSlavesNotReplicatingOrDead">>,
           <<comaster /\ stale /\ n > 0 /\ v = n /\ r = 0, "DeadCoMaster">>,
           <<comaster /\ stale /\ v < n /\ v > 0 /\ r = 0, "DeadCoMasterAndSomeSlaves">>,
           <<comaster /\ stale /\ v >= 1 /\ r >= 1, "UnreachableCoMaster">>,
           <<comaster /\ fresh /\ n > 0 /\ r = 0, "AllCoMasterSlavesNotReplicating">>,
           <<inter /\ stale /\ n = 1 /\ v = 1 /\ f = 1 /\ r = 0,
             "DeadIntermediateMasterWithSingleSlaveFailingToConnect">>,
           <<inter /\ stale /\ n = 1 /\ v = 1 /\ r = 0, "DeadIntermediateMasterWithSingleSlave">>,
           <<inter /\ stale /\ n > 1 /\ v = n /\ r = 0, "DeadIntermediateMaster">>,
           <<inter /\ stale /\ v < n /\ v > 0 /\ r = 0, "DeadIntermediateMasterAndSomeSlaves">>,
           <<inter /\ stale /\ v >= 1 /\ r >= 1, "UnreachableIntermediateMaster">>,
           <<inter /\ fresh /\ n > 1 /\ r = 0 /\ f >= 1 /\ f = v,
             "AllIntermediateMasterSlavesFailingToConnectOrDead">>,
           <<inter /\ fresh /\ n >= 1 /\ r = 0, "AllIntermediateMasterSlavesNotReplicating">>,
           <<a.IsBinlogServer /\ a.IsFailingToConnectToMaster,
             "BinlogServerFailingToConnectToMaster">>,
           <<a.ReplicationDepth = 1 /\ a.IsFailingToConnectToMaster,
             "FirstTierSlaveFailingToConnectToMaster">> >>

\* the code of the first row of the table that holds, NoProblem when none does
TaxonomyCode(a) ==
    LET t == TaxonomyTable(a)
        hits == {i \in 1..Len(t) : t[i][1]}
    IN  IF hits = {} THEN "NoProblem"
        ELSE t[CHOOSE i \in hits : \A j \in hits : i <= j][2]

\* the description that goes with each code
FixedDescription(code) ==
    CASE code = "DeadMasterWithoutSlaves" ->
            "Master cannot be reached by orchestrator and has no slave"
      [] code \in {"DeadMaster", "DeadMasterAndSlaves"} ->
            "Master cannot be reached by orchestrator and none of its slaves is replicating"
      [] code = "DeadMasterAndSomeSlaves" ->
            "Master cannot be reached by orchestrator; some of its slaves are unreachable and none of its reachable slaves is replicating"
      [] code = "UnreachableMaster" ->
            "Master cannot be reached by orchestrator but it has replicating slaves; possibly a network/host issue"
      [] code = "MasterSingleSlaveNotReplicating" ->
            "Master is reachable but its single slave is not replicating"
      [] code = "MasterSingleSlaveDead" ->
            "Master is reachable but its single slave is dead"
      [] code \in {"AllMasterSlavesNotReplicating", "AllMasterSlavesNotReplicatingOrDead"} ->
            "Master is reachable but none of its slaves is replicating"
      [] code = "DeadCoMaster" ->
            "Co-master cannot be reached by orchestrator and none of its slaves is replicating"
      [] code = "DeadCoMasterAndSomeSlaves" ->
            "Co-master cannot be reached by orchestrator; some of its slaves are unreachable and none of its reachable slaves is replicating"
      [] code = "UnreachableCoMaster" ->
            "Co-master cannot be reached by orchestrator but it has replicating slaves; possibly a network/host issue"
      [] code = "AllCoMasterSlavesNotReplicating" ->
            "Co-master is reachable but none of its slaves is replicating"
      [] code = "DeadIntermediateMasterWithSingleSlaveFailingToConnect" ->
            "Intermediate master cannot be reached by orchestrator and its (single) slave is failing to connect"
      [] code = "DeadIntermediateMasterWithSingleSlave" ->
            "Intermediate master cannot be reached by orchestrator and its (single) slave is not replicating"
      [] code = "DeadIntermediateMaster" ->
            "Intermediate master cannot be reached by orchestrator and none of its slaves is replicating"
      [] code = "DeadIntermediateMasterAndSomeSlaves" ->
            "Intermediate master cannot be reached by orchestrator; some of its slaves are unreachable and none of its reachable slaves is replicating"
      [] code = "UnreachableIntermediateMaster" ->
            "Intermediate master cannot be reached by orchestrator but it has replicating slaves; possibly a network/host issue"
      [] code = "AllIntermediateMasterSlavesFailingToConnectOrDead" ->
            "Intermediate master is reachable but all of its slaves are failing to connect"
      [] code = "AllIntermediateMasterSlavesNotReplicating" ->
            "Intermediate master is reachable but none of its slaves is replicating"
      [] code = "BinlogServerFailingToConnectToMaster" ->
            "Binlog server is unable to connect to its master"
      [] code = "FirstTierSlaveFailingToConnectToMaster" ->
            "1st tier slave (directly replicating from topology master) is unable to connect to the master"
      [] code = "NoProblem" -> ""

\* a stale master with the given counts of slaves, valid slaves and valid
\* replicating slaves
StaleMasterWith(a, n, v, r) ==
    /\ a.IsMaster /\ ~a.LastCheckValid
    /\ a.CountSlaves = n /\ a.CountValidSlaves = v /\ a.CountValidReplicatingSlaves = r

\* C6: the classifier gives every aggregate row the code of the first row of
\* the taxonomy table that holds (NoProblem when none does) and that code's
\* description; a stale master with counts (3,3,0) is DeadMaster, with (3,2,0)
\* DeadMasterAndSomeSlaves, with (3,3,1) UnreachableMaster.
C6_ClassifierIsTable ==
    ana # <<>> =>
        LET a == ana[1]
        IN  /\ a.Analysis = TaxonomyCode(a)
            /\ a.Description = FixedDescription(a.Analysis)
            /\ StaleMasterWith(a, 3, 3, 0) => a.Analysis = "DeadMaster"
            /\ StaleMasterWith(a, 3, 2, 0) => a.Analysis = "DeadMasterAndSomeSlaves"
            /\ StaleMasterWith(a, 3, 3, 1) => a.Analysis = "UnreachableMaster"

C6_Witness ==
    /\ ana # <<>>
    /\ StaleMasterWith(ana[1], 3, 3, 1)
    /\ ana[1].IsCoMaster
    /\ ana[1].Analysis = "UnreachableMaster"

\* C10: the counts of every aggregated row are ordered:
\* 0 <= valid replicating <= valid <= slaves, and failing to connect <= slaves.
C10_CountsOrdered ==
    ana # <<>> =>
        LET a == ana[1]
        IN  /\ 0 <= a.CountValidReplicatingSlaves
            /\ a.CountValidReplicatingSlaves <= a.CountValidSlaves
            /\ a.CountValidSlaves <= a.CountSlaves
            /\ a.CountSlavesFailingToConnectToMaster <= a.CountSlaves

C10_Witness ==
    /\ ana # <<>>
    /\ ana[1].CountSlaves = 3
    /\ ana[1].CountValidSlaves = 2
    /\ ana[1].CountValidReplicatingSlaves = 1
    /\ ana[1].CountSlavesFailingToConnectToMaster = 1
    /\ \E i \in 1..3 : /\ grp[1].slaves[i].last_checked > grp[1].slaves[i].last_seen
                       /\ grp[1].slaves[i].slave_io_running = 1
                       /\ grp[1].slaves[i].slave_sql_running = 1

\* the analysis is classified as a problem
IsProblem(a) == a.Analysis # "NoProblem"

\* the hostname of the analysis matches a pattern of RecoveryIgnoreHostnameFilters
IsFiltered(a) ==
    MatchesIgnoreFilter(config.RecoveryIgnoreHostnameFilters, a.AnalyzedInstanceKey.Hostname)

\* the result list holds an entry for the key of the analysis
Reported(result, a) ==
    \E i \in 1..Len(result) : result[i].AnalyzedInstanceKey = a.AnalyzedInstanceKey

\* the result list holds an entry for the key of the analysis, with its code
ReportedWithCode(result, a) ==
    \E i \in 1..Len(result) :
        /\ result[i].AnalyzedInstanceKey = a.AnalyzedInstanceKey
        /\ result[i].Analysis = a.Analysis

\* the pass called AuditInstanceAnalysisInChangelog with the key and the code
\* of the analysis
Audited(audits, a) ==
    \E j \in 1..Len(audits) :
        /\ audits[j].key = a.AnalyzedInstanceKey
        /\ audits[j].code = a.Analysis

\* C7: in a pass, a row classified as a problem whose hostname matches a
\* RecoveryIgnoreHostnameFilters pattern is not in the returned result; if its
\* CountSlaves is at least 1 the audit is called with its key and its code, and
\* (no storage statement having failed) the LastAnalysis record of the key and
\* the newest changelog entry of the key carry that code.
C7_SuppressedStillAudited ==
    ret # <<>> =>
        \A i \in 1..Len(ret[1].analyses) :
            LET a == ret[1].analyses[i]
                key == a.AnalyzedInstanceKey
            IN  (IsProblem(a) /\ IsFiltered(a)) =>
                    /\ ~Reported(ret[1].result, a)
                    /\ a.CountSlaves >= 1 =>
                          /\ Audited(ret[1].audits, a)
                          /\ ~faulted =>
                                /\ CodeOf(lastAnalysis[key]) = a.Analysis
                                /\ ChangelogCodes(key) # <<>>
                                /\ Last(ChangelogCodes(key)) = a.Analysis

C7_Witness ==
    /\ ret # <<>>
    /\ ~faulted
    /\ \E i \in 1..Len(ret[1].analyses) :
          LET a == ret[1].analyses[i]
          IN  /\ IsProblem(a)
              /\ IsFiltered(a)
              /\ a.CountSlaves >= 1
              /\ ~Reported(ret[1].result, a)
              /\ CodeOf(lastAnalysis[a.AnalyzedInstanceKey]) = a.Analysis
              /\ Last(ChangelogCodes(a.AnalyzedInstanceKey)) = a.Analysis
    /\ ret[1].result # <<>>

\* the last two passes both returned without error, one with includeDowntimed
\* false and the other with includeDowntimed true, on the same snapshot
BothModesRan ==
    /\ ret # <<>>
    /\ prev # <<>>
    /\ ~ret[1].err
    /\ ~prev[1].err
    /\ ret[1].includeDowntimed # prev[1].includeDowntimed

\* the result of the one of the last two passes that ran with includeDowntimed = b
ResultOf(b) == IF ret[1].includeDowntimed = b THEN ret[1].result ELSE prev[1].result

\* C8 (as stated): for the same snapshot, a problem row under active downtime
\* is absent from the result of GetReplicationAnalysis(false) and present in
\* the result of GetReplicationAnalysis(true), with the same code.
C8_DowntimeOriginal ==
    BothModesRan =>
        \A i \in 1..Len(ret[1].analyses) :
            LET a == ret[1].analyses[i]
            IN  (IsProblem(a) /\ a.IsDowntimed) =>
                    /\ ~Reported(ResultOf(FALSE), a)
                    /\ ReportedWithCode(ResultOf(TRUE), a)

\* C8 (amended): for the same snapshot, a problem row under active downtime
\* whose hostname matches no RecoveryIgnoreHostnameFilters pattern is absent
\* from the result of GetReplicationAnalysis(false) and present in the result
\* of GetReplicationAnalysis(true), with the same code in both passes.
C8_DowntimeReportability ==
    BothModesRan =>
        \A i \in 1..Len(ret[1].analyses) :
            LET a == ret[1].analyses[i]
            IN  (IsProblem(a) /\ a.IsDowntimed /\ ~IsFiltered(a)) =>
                    /\ ~Reported(ResultOf(FALSE), a)
                    /\ ReportedWithCode(ResultOf(TRUE), a)

C8_Witness ==
    /\ BothModesRan
    /\ ~ret[1].includeDowntimed
    /\ \E i \in 1..Len(ret[1].analyses) :
          LET a == ret[1].analyses[i]
          IN  /\ IsProblem(a)
              /\ a.IsDowntimed
              /\ ~IsFiltered(a)
              /\ ~Reported(ret[1].result, a)
              /\ ReportedWithCode(prev[1].result, a)

\* C9: when an audit write (upsert or changelog insert) fails inside a pass of
\* GetReplicationAnalysis, the pass returns a non-nil error.
C9_FailuresSurfaced ==
    ret # <<>> =>
        ((\E j \in 1..Len(ret[1].audits) : ret[1].audits[j].err) => ret[1].err)

\* the valid replicas of the group: those with last_checked <= last_seen
ValidSlaveIds(g) ==
    {i \in 1..Len(g.slaves) : g.slaves[i].last_checked <= g.slaves[i].last_seen}

\* the group has a valid replica, and every valid replica has the capability
UniversalAmongValid(g, HasCapability(_)) ==
    /\ ValidSlaveIds(g) # {}
    /\ \A i \in ValidSlaveIds(g) : HasCapability(g.slaves[i])

\* C11: each of the four immediate-topology flags is true only if the node
\* has at least one valid replica and every valid replica has the capability.
C11_GtidFlagsUniversal ==
    ana # <<>> =>
        LET a == ana[1]
            g == grp[1]
            Oracle(sl) == sl.oracle_gtid = 1
            Pseudo(sl) == sl.pseudo_gtid = 1
            MariaDB(sl) == sl.mariadb_gtid = 1
            Binlog(sl) == sl.binlog_server = 1
        IN  /\ a.OracleGTIDImmediateTopology => UniversalAmongValid(g, Oracle)
            /\ a.PseudoGTIDImmediateTopology => UniversalAmongValid(g, Pseudo)
            /\ a.MariaDBGTIDImmediateTopology => UniversalAmongValid(g, MariaDB)
            /\ a.BinlogServerImmediateTopology => UniversalAmongValid(g, Binlog)

\* the entries of cl older than the retention window at time t
OlderThanWindow(r, t) == r.analysis_timestamp < t - UnseenInstanceForgetHours

\* the entries of cl younger than the retention window at time t
YoungerThanWindow(r, t) == r.analysis_timestamp > t - UnseenInstanceForgetHours

\* C12: after ExpireInstanceAnalysisChangelog has run at time now with a
\* window of W hours, the changelog holds no entry older than now - W, and the
\* entries younger than now - W are those it held before, as they were.
C12_ExpiryWindow ==
    expired # <<>> =>
        LET e == expired[1]
        IN  /\ \A i \in 1..Len(e.after) : ~OlderThanWindow(e.after[i], e.at)
            /\ SelectSeq(e.after, LAMBDA r : YoungerThanWindow(r, e.at))
                   = SelectSeq(e.before, LAMBDA r : YoungerThanWindow(r, e.at))

C12_Witness ==
    /\ expired # <<>>
    /\ \E i \in 1..Len(expired[1].before) : OlderThanWindow(expired[1].before[i], expired[1].at)
    /\ \E i \in 1..Len(expired[1].after) : YoungerThanWindow(expired[1].after[i], expired[1].at)
    /\ Len(expired[1].after) < Len(expired[1].before)
    /\ changelog = expired[1].after

\* the places, in chain order, of the guards that hold on the analysis a
GuardsHolding(a) ==
    LET g == Guards(a) IN {i \in 1..Len(g) : g[i][1]}

\* C13 (as stated): the guards of the chain are pairwise mutually exclusive:
\* no row satisfies two of them.
C13_GuardsExclusive ==
    ana # <<>> => Cardinality(GuardsHolding(ana[1])) <= 1

\* C13 (amended): the guards are not mutually exclusive and the order of the
\* chain decides: the code of a row is the code of the first guard, in chain
\* order, that holds on it, whatever later guards hold too; NoProblem when
\* none holds.
C13_FirstMatchWins ==
    ana # <<>> =>
        LET a == ana[1]
            g == Guards(a)
            hits == {i \in 1..Len(g) : g[i][1]}
        IN  IF hits = {} THEN a.Analysis = "NoProblem"
            ELSE LET first == CHOOSE i \in hits : \A j \in hits : i <= j
                 IN  /\ a.Analysis = g[first][2]
                     /\ \A i \in hits : i # first => i > first

C13_Witness ==
    /\ ana # <<>>
    /\ GuardsHolding(ana[1]) = {1, 2}
    /\ ana[1].Analysis = "DeadMasterWithoutSlaves"

\* C14: in a pass, a row is audited (with its key and its code) if and only
\* if its CountSlaves > 0, whatever its code, the filters and downtime; a
\* NoProblem row is never in the result.
C14_AuditedIffHasSlaves ==
    ret # <<>> =>
        /\ \A i \in 1..Len(ret[1].analyses) :
              LET a == ret[1].analyses[i]
              IN  /\ Audited(ret[1].audits, a) <=> a.CountSlaves > 0
                  /\ a.CountSlaves = 0 =>
                        ~\E j \in 1..Len(ret[1].audits) :
                            ret[1].audits[j].key = a.AnalyzedInstanceKey
                  /\ ~IsProblem(a) => ~Reported(ret[1].result, a)
        /\ \A j \in 1..Len(ret[1].audits) :
              \E i \in 1..Len(ret[1].analyses) :
                  /\ ret[1].analyses[i].AnalyzedInstanceKey = ret[1].audits[j].key
                  /\ ret[1].analyses[i].Analysis = ret[1].audits[j].code

C14_Witness ==
    /\ ret # <<>>
    /\ \E i, j \in 1..Len(ret[1].analyses) :
          LET a == ret[1].analyses[i]
              b == ret[1].analyses[j]
          IN  /\ ~IsProblem(a)
              /\ a.CountSlaves > 0
              /\ IsFiltered(a)
              /\ Audited(ret[1].audits, a)
              /\ ~Reported(ret[1].result, a)
              /\ IsProblem(b)
              /\ b.CountSlaves = 0
              /\ Reported(ret[1].result, b)
              /\ ~Audited(ret[1].audits, b)

\* the keys and codes of a list of audit calls, in call order
KeysAndCodes(audits) ==
    [j \in 1..Len(audits) |-> [key |-> audits[j].key, code |-> audits[j].code]]

\* what a pass over the snapshot returns and audits when the reduction flag
\* is set to reduce, for each order the query may return its rows in
PassOutcomes(reduce, includeDowntimed) ==
    {LET out == RowsMap(rs, [result |-> <<>>, analyses |-> <<>>, audits |-> <<>>,
                             la |-> lastAnalysis, cl |-> changelog],
                        config, includeDowntimed, now, "ok")
     IN  [result |-> out.result, audits |-> KeysAndCodes(out.audits)] :
        rs \in QueryResults(snapshot, reduce, now)}

\* C15: a pass returns the same result list and makes the same audit calls
\* (keys and codes) as a pass over the same snapshot with the other setting of
\* ReduceReplicationAnalysisCount; every row the reduction clause drops is
\* classified NoProblem and has CountSlaves = 0.
C15_ReductionIsVolumeOnly ==
    (ret # <<>> /\ ~ret[1].err) =>
        /\ [result |-> ret[1].result, audits |-> KeysAndCodes(ret[1].audits)]
               \in PassOutcomes(~ret[1].reduce, ret[1].includeDowntimed)
        /\ \A h \in DOMAIN snapshot :
              LET m == AnalysisRow(snapshot[h], now)
              IN  ~ReductionClause(m) =>
                      /\ Analyze(m).Analysis = "NoProblem"
                      /\ Analyze(m).CountSlaves = 0

C15_Witness ==
    /\ ret # <<>>
    /\ ~ret[1].err
    /\ ret[1].reduce
    /\ \E h \in DOMAIN snapshot :
          /\ ~snapshot[h].maintenance
          /\ ~ReductionClause(AnalysisRow(snapshot[h], now))
    /\ ret[1].result # <<>>
    /\ ret[1].audits # <<>>
    /\ Len(ret[1].analyses) < Cardinality(DOMAIN snapshot)

\* the key of the instance with hostname h in the snapshot
KeyOf(h) == [Hostname |-> snapshot[h].m.hostname, Port |-> snapshot[h].m.port]

\* C16: an instance under active maintenance is in no pass's result, no audit
\* call is made for its key, and through any sequence of passes its
\* LastAnalysis record and its changelog entries stay as they were before the
\* first pass (here: none).
C16_MaintenanceExcluded ==
    \A h \in DOMAIN snapshot :
        snapshot[h].maintenance =>
            /\ lastAnalysis[KeyOf(h)] = <<>>
            /\ SelectKey(changelog, KeyOf(h)) = <<>>
            /\ ret # <<>> =>
                  /\ \A i \in 1..Len(ret[1].result) :
                        ret[1].result[i].AnalyzedInstanceKey # KeyOf(h)
                  /\ \A i \in 1..Len(ret[1].analyses) :
                        ret[1].analyses[i].AnalyzedInstanceKey # KeyOf(h)
                  /\ \A j \in 1..Len(ret[1].audits) : ret[1].audits[j].key # KeyOf(h)

C16_Witness ==
    /\ ret # <<>>
    /\ prev # <<>>
    /\ ~ret[1].err
    /\ ret[1].result # <<>>
    /\ changelog # <<>>
    /\ \E h \in DOMAIN snapshot :
          LET a == Analyze(AnalysisRow(snapshot[h], now))
          IN  /\ snapshot[h].maintenance
              /\ IsProblem(a)
              /\ a.CountSlaves > 0
              /\ lastAnalysis[KeyOf(h)] = <<>>

\* C17: LastCheckValid is true if and only if no timestamp is missing,
\* last_attempted_check <= last_seen + 2 * poll interval, and
\* last_checked <= last_seen.
C17_LastCheckValid ==
    ana # <<>> =>
        LET m == grp[1].m
        IN  ana[1].LastCheckValid <=>
                /\ m.last_checked # SqlNull
                /\ m.last_seen # SqlNull
                /\ m.last_attempted_check # SqlNull
                /\ m.last_attempted_check <= m.last_seen + 2 * InstancePollSeconds
                /\ m.last_checked <= m.last_seen

C17_Witness ==
    /\ ana # <<>>
    /\ ~ana[1].LastCheckValid
    /\ grp[1].m.last_checked = 0
    /\ grp[1].m.last_seen = 0
    /\ grp[1].m.last_attempted_check = 2 * InstancePollSeconds + 1
    /\ ana[1].Analysis = "DeadMasterWithoutSlaves"

\* the latest n + 1 calls on key k were made with the same code (a call and
\* its n repetitions), and the latest has returned without error
RepeatedCall(k, n) ==
    LET u == upserts[k]
    IN  /\ Len(u) >= n + 1
        /\ \A i \in (Len(u) - n)..Len(u) : u[i] = Last(u)
        /\ call[1].pc = "idle"
        /\ call[1].key = k
        /\ ~call[1].err

\* C18: when a call (key, c) has been repeated on later cycles, the
\* repetitions returning without error, the transition of the key to c is in
\* the changelog: its newest entry for the key has code c.
C18_RetryAppends ==
    \A k \in InstanceKeys :
        RepeatedCall(k, MaxRetries) =>
            /\ ChangelogCodes(k) # <<>>
            /\ Last(ChangelogCodes(k)) = Last(upserts[k])

\* C19: a step that expires the changelog leaves every LastAnalysis record as
\* it was; a call on a key that has a record and no changelog entry, made with
\* the code of the record, returns without appending; and a key gains a
\* changelog entry only from a call that changed the code of its record.
C19_ExpiryKeepsLastAnalysis ==
    [][/\ (expired' # expired \/ Len(changelog') < Len(changelog)) =>
              lastAnalysis' = lastAnalysis
       /\ \A k \in InstanceKeys :
              (/\ upserts'[k] # upserts[k]
               /\ lastAnalysis[k] # <<>>
               /\ SelectKey(changelog, k) = <<>>
               /\ Last(upserts'[k]) = CodeOf(lastAnalysis[k])) =>
                    /\ call'[1].pc = "idle"
                    /\ ~call'[1].err
                    /\ lastAnalysis'[k] = lastAnalysis[k]
                    /\ changelog' = changelog
       /\ \A k \in InstanceKeys :
              Len(SelectKey(changelog', k)) > Len(SelectKey(changelog, k)) =>
                    /\ call[1].key = k
                    /\ call[1].pre # call[1].code
                    /\ Last(ChangelogCodes(k))' = call[1].code]_vars

C19_Witness ==
    \E k \in InstanceKeys :
        /\ expired # <<>>
        /\ SelectKey(expired[1].before, k) # <<>>
        /\ SelectKey(expired[1].after, k) = <<>>
        /\ SelectKey(changelog, k) = <<>>
        /\ Len(upserts[k]) = 2
        /\ upserts[k][1] = upserts[k][2]
        /\ CodeOf(lastAnalysis[k]) = upserts[k][2]
        /\ call[1].key = k
        /\ call[1].pc = "idle"
        /\ call[1].rows = 0

====
